---- MODULE Spec2Model ----
(***************************************************************************)
(* A model of miopen::Solution (src/src/solution.cpp): Solution::Run and   *)
(* its two RunImpl overloads, Solution::Transpose, and the JSON encoding   *)
(* of a Solution.  The execution handle's invoker cache, the Problem       *)
(* helpers and the solver registry are collaborators of solution.cpp; they *)
(* are modelled at the interface solution.cpp uses.                        *)
(***************************************************************************)
EXTENDS Integers, Sequences, FiniteSets, TLC

VARIABLES
    solution,   \* the Solution object: solver, problem, time, workspace_required, perf_cfg
    invokers,   \* the handle's invoker cache: <<net_cfg, solver name>> -> invoker
    built,      \* per key, how many times the resolution fallback built an invoker
    last,       \* the frame of the last call that returned (locals, events, outcome)
    runs,       \* number of calls made so far
    record,     \* the persisted Solution record at hand, and the Solution it encodes
    thr,        \* the frames of the Run calls in flight (concurrent specification)
    twin        \* the frame of the same call made on the non-transpose form of the problem

vars == <<solution, invokers, built, last, runs, record, thr, twin>>

----------------------------------------------------------------------------
(* Bounds of the model. *)

MaxWorkspace == 1
MaxRuns == 2

----------------------------------------------------------------------------
(* Values. *)

\* std::optional<T>: the empty sequence is std::nullopt, <<v>> holds v.
nullopt == << >>
Some(v) == <<v>>
has_value(o) == Len(o) > 0
value(o) == o[1]
value_or(o, d) == IF has_value(o) THEN value(o) ELSE d

\* miopenTensorArgumentId_t, the three convolution arguments.
miopenTensorConvolutionX == "X"
miopenTensorConvolutionW == "W"
miopenTensorConvolutionY == "Y"
TensorIds == {miopenTensorConvolutionX, miopenTensorConvolutionW, miopenTensorConvolutionY}

\* miopenProblemDirection_t; "Other" stands for a value outside the enumeration.
miopenProblemDirectionForward == "Forward"
miopenProblemDirectionBackward == "Backward"
miopenProblemDirectionBackwardWeights == "BackwardWeights"
Directions == {miopenProblemDirectionForward, miopenProblemDirectionBackward,
               miopenProblemDirectionBackwardWeights, "Other"}

\* miopenConvolutionMode_t
miopenConvolution == "miopenConvolution"
miopenTranspose == "miopenTranspose"
Modes == {miopenConvolution, miopenTranspose}

\* A tensor descriptor is its lengths; GetLengths()[i] is 0-based.
Descs == {<<1, 2>>, <<2, 1>>}
GetLength(d, i) == d[i + 1]

\* The caller's buffer handles: one distinct handle per argument slot.
BufferOf(id) == IF id = miopenTensorConvolutionX THEN "bufA"
                ELSE IF id = miopenTensorConvolutionW THEN "bufW" ELSE "bufB"

\* RunInput: an optional descriptor and a buffer handle.
RunInputsFor(id) == [descriptor : {nullopt} \cup {Some(d) : d \in Descs}, buffer : {BufferOf(id)}]

\* std::unordered_map<miopenTensorArgumentId_t, RunInput>
InputMaps(D) ==
    {f \in [D -> UNION {RunInputsFor(id) : id \in D}] : \A id \in D : f[id] \in RunInputsFor(id)}
AllInputs == UNION {InputMaps(D) : D \in SUBSET TensorIds}

WorkspaceSizes == 0..MaxWorkspace

\* miopenStatus_t of each failure, by the place that throws it.
StatusOf(kind) ==
    CASE kind = "InsufficientWorkspace" -> "miopenStatusBadParm"
      [] kind = "InvalidShape"          -> "miopenStatusBadParm"
      [] kind = "GroupCount"            -> "miopenStatusBadParm"
      [] kind = "MissingArgument"       -> "miopenStatusInvalidValue"
      [] kind = "CorruptData"           -> "miopenStatusInvalidValue"
      [] kind = "Unsupported"           -> "miopenStatusNotImplemented"
      [] kind = "VersionMismatch"       -> "miopenStatusVersionMismatch"
      [] kind = "SolverFailed"          -> "miopenStatusUnknownError"
      [] OTHER                          -> "miopenStatusSuccess"

----------------------------------------------------------------------------
(* Collaborators of solution.cpp. *)

\* solver::Id <-> display string: the registry of solvers.  0 is the invalid id.
SolverIds == {1, 2}
SolverToString(id) ==
    CASE id = 1 -> "ConvDirectNaiveFwd"
      [] id = 2 -> "ConvDirectNaiveBwd"
      [] OTHER  -> "INVALID_SOLVER_ID_0"
SolverFromString(str) ==
    CASE str = "ConvDirectNaiveFwd" -> 1
      [] str = "ConvDirectNaiveBwd" -> 2
      [] OTHER                      -> 0

\* Problem::GetTensorDescriptorChecked: the registered descriptor, or a failure.
HasTensorDescriptor(problem, name) == name \in DOMAIN problem.tensor_descriptors

\* Problem::RegisterTensorDescriptor
RegisterTensorDescriptor(problem, id, d) ==
    [problem EXCEPT !.tensor_descriptors =
        [i \in DOMAIN @ \cup {id} |-> IF i = id THEN d ELSE @[i]]]

TransposedId(id) == IF id = miopenTensorConvolutionX THEN miopenTensorConvolutionY
                    ELSE IF id = miopenTensorConvolutionY THEN miopenTensorConvolutionX
                    ELSE id

TransposedDirection(dir) ==
    IF dir = miopenProblemDirectionForward THEN miopenProblemDirectionBackward
    ELSE IF dir = miopenProblemDirectionBackward THEN miopenProblemDirectionForward
    ELSE dir

\* Problem::MakeTransposed: the structurally transposed problem.
MakeTransposed(problem) ==
    [problem EXCEPT
        !.direction = TransposedDirection(@),
        !.tensor_descriptors =
            [i \in {TransposedId(j) : j \in DOMAIN @} |-> @[TransposedId(i)]]]

\* Problem::AsConvolution: the conv::ProblemDescription of the problem's own
\* descriptors; it needs all three.
CanAsConvolution(problem) == TensorIds \subseteq DOMAIN problem.tensor_descriptors
AsConvolution(problem) ==
    [direction |-> problem.direction,
     x |-> problem.tensor_descriptors[miopenTensorConvolutionX],
     w |-> problem.tensor_descriptors[miopenTensorConvolutionW],
     y |-> problem.tensor_descriptors[miopenTensorConvolutionY]]

\* conv::ProblemDescription::MakeNetworkConfig / FusionDescription::MakeNetworkConfig:
\* a canonical key of the shapes and the direction.
MakeNetworkConfig(conv_problem) ==
    <<"conv", conv_problem.direction, conv_problem.x, conv_problem.w, conv_problem.y>>
FusedArgs == <<miopenTensorConvolutionX, miopenTensorConvolutionW, miopenTensorConvolutionY>>
DescOrNone(problem, id) ==
    IF HasTensorDescriptor(problem, id) THEN problem.tensor_descriptors[id] ELSE << >>
MakeFusedNetworkConfig(problem) ==
    <<"fused", "Fused", DescOrNone(problem, miopenTensorConvolutionX),
      DescOrNone(problem, miopenTensorConvolutionW), DescOrNone(problem, miopenTensorConvolutionY)>>

\* Problem::ValidateGroupCount, for a group count of 1.
ValidateGroupCount(xDesc, wDesc) == GetLength(xDesc, 1) = GetLength(wDesc, 1)

\* Handle::GetInvoker(config, solver id): the cache is keyed by the solver's name.
CacheKey(net_cfg, solver_name) == <<net_cfg, solver_name>>
\* A lookup that returns an entry of the same network config whatever its solver.
GetInvoker_any_solver(cache, net_cfg, solver) ==
    LET same == {k \in DOMAIN cache : k[1] = net_cfg}
    IN  IF same # {} THEN Some(cache[CHOOSE k \in same : TRUE]) ELSE nullopt

GetInvoker(cache, net_cfg, solver) ==
    LET key == CacheKey(net_cfg, SolverToString(solver))
    IN  IF key \in DOMAIN cache THEN Some(cache[key]) ELSE nullopt

\* Handle::PrepareInvoker: the invoker built from a solver's construction.
PrepareInvoker(net_cfg, solver, perf) ==
    [net_cfg |-> net_cfg, solver |-> SolverToString(solver), perf_cfg |-> perf]

\* Handle::RegisterInvoker(invoker, config, solver name): inserts, never replaces.
RegisterInvoker(cache, invoker, net_cfg, solver_name) ==
    LET key == CacheKey(net_cfg, solver_name)
    IN  [k \in DOMAIN cache \cup {key} |-> IF k \in DOMAIN cache THEN cache[k] ELSE invoker]

----------------------------------------------------------------------------
(* The frame of one Run call: its arguments, locals, the calls it made on  *)
(* its collaborators (events, in order) and how it ended.                  *)

NewFrame ==
    [op |-> "none", status |-> "none", errArg |-> "", fused |-> FALSE,
     ids |-> {}, ws |-> 0, numerics |-> FALSE,
     x |-> nullopt, w |-> nullopt, y |-> nullopt, problem_ |-> nullopt,
     invoke_ctx |-> nullopt, net_cfg |-> nullopt, found |-> nullopt,
     built |-> nullopt, invoked |-> nullopt, events |-> << >>]

Event(name, role, arg) == <<name, role, arg>>
EventNames(f) == {f.events[i][1] : i \in 1..Len(f.events)}
CountEvents(f, name) == Cardinality({i \in 1..Len(f.events) : f.events[i][1] = name})
IndexOf(f, name) == CHOOSE i \in 1..Len(f.events) : f.events[i][1] = name

\* A failure that is raised only after the handle's cache has been probed.
Thrown_after_probe(f, kind, arg) ==
    [f EXCEPT !.status = kind, !.errArg = arg,
              !.events = Append(@, Event("GetInvoker", "", ""))]

\* MIOPEN_THROW(status, ...): the call ends here.
Thrown(f, kind, arg) == [f EXCEPT !.status = kind, !.errArg = arg]
Failed(f) == f.status \notin {"none", "Probe", "Miss", "Built", "Registered", "Ok"}

\* A get_input_checked that takes the Problem's descriptor for an id the caller's
\* inputs lack, instead of failing.
get_input_checked_lenient(problem_casted, inputs, name) ==
    IF name \notin DOMAIN inputs
    THEN IF HasTensorDescriptor(problem_casted, name)
         THEN [ok |-> TRUE,
               ret |-> Some([descriptor |-> Some(problem_casted.tensor_descriptors[name]),
                             buffer |-> "null"])]
         ELSE [ok |-> FALSE, ret |-> nullopt]
    ELSE LET found == inputs[name]
         IN  IF has_value(found.descriptor)
             THEN [ok |-> TRUE, ret |-> Some(found)]
             ELSE IF HasTensorDescriptor(problem_casted, name)
                  THEN [ok |-> TRUE,
                        ret |-> Some([found EXCEPT !.descriptor =
                                         Some(problem_casted.tensor_descriptors[name])])]
                  ELSE [ok |-> FALSE, ret |-> nullopt]

\* A get_input_checked that takes the Problem's descriptor whenever it has one.
get_input_checked_prefers_problem(problem_casted, inputs, name) ==
    IF name \notin DOMAIN inputs
    THEN [ok |-> FALSE, ret |-> nullopt]
    ELSE LET found == inputs[name]
         IN  IF HasTensorDescriptor(problem_casted, name)
             THEN [ok |-> TRUE,
                   ret |-> Some([found EXCEPT !.descriptor =
                                    Some(problem_casted.tensor_descriptors[name])])]
             ELSE IF has_value(found.descriptor)
                  THEN [ok |-> TRUE, ret |-> Some(found)]
                  ELSE [ok |-> FALSE, ret |-> nullopt]

\* get_input_checked (solution.cpp:135-146)
get_input_checked(problem_casted, inputs, name) ==
    IF name \notin DOMAIN inputs
    THEN [ok |-> FALSE, ret |-> nullopt]
    ELSE LET found == inputs[name]
         IN  IF has_value(found.descriptor)
             THEN [ok |-> TRUE, ret |-> Some(found)]
             ELSE IF HasTensorDescriptor(problem_casted, name)
                  THEN [ok |-> TRUE,
                        ret |-> Some([found EXCEPT !.descriptor =
                                         Some(problem_casted.tensor_descriptors[name])])]
                  ELSE [ok |-> FALSE, ret |-> nullopt]

\* A Transpose that rewrites the problem but leaves x and y as they were.
Transpose_no_swap(problem, x, w, y) ==
    LET transposed == MakeTransposed(problem)
        t1 == IF has_value(x.descriptor)
              THEN RegisterTensorDescriptor(transposed, miopenTensorConvolutionX, value(x.descriptor))
              ELSE transposed
        t2 == IF has_value(w.descriptor)
              THEN RegisterTensorDescriptor(t1, miopenTensorConvolutionW, value(w.descriptor))
              ELSE t1
        t3 == IF has_value(y.descriptor)
              THEN RegisterTensorDescriptor(t2, miopenTensorConvolutionY, value(y.descriptor))
              ELSE t2
    IN  [problem |-> t3, x |-> x, y |-> y]

\* Solution::Transpose (solution.cpp:275-289)
Transpose(problem, x, w, y) ==
    LET transposed == MakeTransposed(problem)
        sx == y
        sy == x
        t1 == IF has_value(sx.descriptor)
              THEN RegisterTensorDescriptor(transposed, miopenTensorConvolutionX, value(sx.descriptor))
              ELSE transposed
        t2 == IF has_value(w.descriptor)
              THEN RegisterTensorDescriptor(t1, miopenTensorConvolutionW, value(w.descriptor))
              ELSE t1
        t3 == IF has_value(sy.descriptor)
              THEN RegisterTensorDescriptor(t2, miopenTensorConvolutionY, value(sy.descriptor))
              ELSE t2
    IN  [problem |-> t3, x |-> sx, y |-> sy]

\* The checkNumericsInput calls of solution.cpp:161-169
NumericsInputEvents(enabled, dir, x, w, y) ==
    IF ~enabled THEN << >>
    ELSE (IF dir # miopenProblemDirectionBackward
          THEN <<Event("checkNumericsInput", "x", x.buffer)>> ELSE << >>)
      \o (IF dir # miopenProblemDirectionBackwardWeights
          THEN <<Event("checkNumericsInput", "w", w.buffer)>> ELSE << >>)
      \o (IF dir # miopenProblemDirectionForward
          THEN <<Event("checkNumericsInput", "y", y.buffer)>> ELSE << >>)

\* checkNumericsOutput_ (solution.cpp:203-213)
NumericsOutputEvents(enabled, dir, x, w, y) ==
    IF ~enabled THEN << >>
    ELSE (IF dir = miopenProblemDirectionBackward
          THEN <<Event("checkNumericsOutput", "x", x.buffer)>> ELSE << >>)
      \o (IF dir = miopenProblemDirectionBackwardWeights
          THEN <<Event("checkNumericsOutput", "w", w.buffer)>> ELSE << >>)
      \o (IF dir = miopenProblemDirectionForward
          THEN <<Event("checkNumericsOutput", "y", y.buffer)>> ELSE << >>)

\* The invoke_ctx lambda (solution.cpp:175-198), for the three directions.
Tensor(ri) == [descriptor |-> value(ri.descriptor), buffer |-> ri.buffer]
SupportedDirection(dir) ==
    dir \in {miopenProblemDirectionForward, miopenProblemDirectionBackward,
             miopenProblemDirectionBackwardWeights}
\* An invoke_ctx that binds every direction as Forward does.
MakeInvokeCtx_as_forward(dir, x, w, y, workspace_size) ==
    IF dir \in {miopenProblemDirectionForward, miopenProblemDirectionBackward}
    THEN [type |-> "DataInvokeParams", in1 |-> Tensor(x), in2 |-> Tensor(w), out |-> Tensor(y),
          workSpaceSize |-> workspace_size,
          gfx90aFp16alt |-> IF dir = miopenProblemDirectionForward THEN "GetFwd" ELSE "GetBwd"]
    ELSE [type |-> "WrWInvokeParams", in1 |-> Tensor(y), in2 |-> Tensor(x), out |-> Tensor(w),
          workSpaceSize |-> workspace_size, gfx90aFp16alt |-> "GetWrW"]

MakeInvokeCtx(dir, x, w, y, workspace_size) ==
    IF dir = miopenProblemDirectionForward
    THEN [type |-> "DataInvokeParams", in1 |-> Tensor(x), in2 |-> Tensor(w), out |-> Tensor(y),
          workSpaceSize |-> workspace_size, gfx90aFp16alt |-> "GetFwd"]
    ELSE IF dir = miopenProblemDirectionBackward
    THEN [type |-> "DataInvokeParams", in1 |-> Tensor(y), in2 |-> Tensor(w), out |-> Tensor(x),
          workSpaceSize |-> workspace_size, gfx90aFp16alt |-> "GetBwd"]
    ELSE [type |-> "WrWInvokeParams", in1 |-> Tensor(y), in2 |-> Tensor(x), out |-> Tensor(w),
          workSpaceSize |-> workspace_size, gfx90aFp16alt |-> "GetWrW"]

\* A shape check that reads the weights' dimension 1 instead of dimension 0.
BackwardShapeMismatch_w1(problem_, w, y) ==
    /\ problem_.direction = miopenProblemDirectionBackward
    /\ GetLength(value(y.descriptor), 1) # GetLength(value(w.descriptor), 1)

\* The shape check of solution.cpp:155-159
BackwardShapeMismatch(problem_, w, y) ==
    /\ problem_.direction = miopenProblemDirectionBackward
    /\ GetLength(value(y.descriptor), 1) # GetLength(value(w.descriptor), 0)

\* Solution::RunImpl for a convolution, up to the cache probe (solution.cpp:127-200).
ConvPrologue(sol, inputs, numerics, f0) ==
    LET problem_casted == sol.problem
        rx == get_input_checked(problem_casted, inputs, miopenTensorConvolutionX)
        rw == get_input_checked(problem_casted, inputs, miopenTensorConvolutionW)
        ry == get_input_checked(problem_casted, inputs, miopenTensorConvolutionY)
    IN  IF ~rx.ok THEN Thrown(f0, "MissingArgument", miopenTensorConvolutionX)
        ELSE IF ~rw.ok THEN Thrown(f0, "MissingArgument", miopenTensorConvolutionW)
        ELSE IF ~ry.ok THEN Thrown(f0, "MissingArgument", miopenTensorConvolutionY)
        ELSE
        LET w == value(rw.ret)
            t == IF problem_casted.mode = miopenTranspose
                 THEN Transpose(problem_casted, value(rx.ret), w, value(ry.ret))
                 ELSE [problem |-> problem_casted, x |-> value(rx.ret), y |-> value(ry.ret)]
            x == t.x
            y == t.y
            problem_ == t.problem
            dir == problem_.direction
            f1 == [f0 EXCEPT !.x = Some(x), !.w = Some(w), !.y = Some(y),
                             !.problem_ = Some(problem_)]
        IN  IF BackwardShapeMismatch(problem_, w, y) THEN Thrown(f1, "InvalidShape", "")
            ELSE
            LET f2 == [f1 EXCEPT !.numerics = numerics,
                                 !.events = NumericsInputEvents(numerics, dir, x, w, y)]
            IN  IF ~CanAsConvolution(problem_)
                THEN Thrown(f2, "MissingArgument",
                            CHOOSE id \in TensorIds : ~HasTensorDescriptor(problem_, id))
                ELSE IF ~ValidateGroupCount(value(x.descriptor), value(w.descriptor))
                THEN Thrown(f2, "GroupCount", "")
                ELSE IF ~SupportedDirection(dir) THEN Thrown(f2, "Unsupported", "direction")
                ELSE [f2 EXCEPT
                        !.status = "Probe",
                        !.invoke_ctx = Some(MakeInvokeCtx(dir, x, w, y, f0.ws)),
                        !.net_cfg = Some(MakeNetworkConfig(AsConvolution(problem_)))]

\* A buffer_getter that accepts any descriptor the caller supplies.
buffer_getter_any_descriptor(inputs, id, descriptor) ==
    IF id \notin DOMAIN inputs
    THEN [ok |-> FALSE, kind |-> "MissingArgument", buffer |-> ""]
    ELSE [ok |-> TRUE, kind |-> "", buffer |-> inputs[id].buffer]

\* buffer_getter (solution.cpp:241-250)
buffer_getter(inputs, id, descriptor) ==
    IF id \notin DOMAIN inputs
    THEN [ok |-> FALSE, kind |-> "MissingArgument", buffer |-> ""]
    ELSE LET found == inputs[id]
         IN  IF has_value(found.descriptor) /\ value(found.descriptor) # descriptor
             THEN [ok |-> FALSE, kind |-> "Unsupported", buffer |-> ""]
             ELSE [ok |-> TRUE, kind |-> "", buffer |-> found.buffer]

\* FusedProblem::MakeInvokeParams: asks buffer_getter for each argument of the
\* plan, in order; the first failure ends the call.
FusedArgIds(problem_) == SelectSeq(FusedArgs, LAMBDA id : HasTensorDescriptor(problem_, id))
FirstFailure(problem_, inputs) ==
    LET ids == FusedArgIds(problem_)
        bad == {i \in 1..Len(ids) :
                   ~buffer_getter(inputs, ids[i], problem_.tensor_descriptors[ids[i]]).ok}
    IN  IF bad = {} THEN 0 ELSE CHOOSE i \in bad : \A j \in bad : i <= j
MakeInvokeParams(problem_, inputs) ==
    [type |-> "FusionInvokeParams",
     args |-> [id \in DOMAIN problem_.tensor_descriptors |->
                  buffer_getter(inputs, id, problem_.tensor_descriptors[id]).buffer]]

\* Solution::RunImpl for a fused problem, up to the cache probe (solution.cpp:235-257).
FusedPrologue(sol, inputs, f0) ==
    LET problem_ == sol.problem
        ids == FusedArgIds(problem_)
        k == FirstFailure(problem_, inputs)
        f1 == [f0 EXCEPT !.fused = TRUE, !.problem_ = Some(problem_)]
    IN  IF k # 0
        THEN Thrown(f1, buffer_getter(inputs, ids[k], problem_.tensor_descriptors[ids[k]]).kind,
                    ids[k])
        ELSE [f1 EXCEPT !.status = "Probe",
                        !.invoke_ctx = Some(MakeInvokeParams(problem_, inputs)),
                        !.net_cfg = Some(MakeFusedNetworkConfig(problem_))]

\* A Run that dispatches on the problem before it checks the workspace.
RunPrologue_workspace_last(sol, inputs, workspace_size, numerics) ==
    LET f0 == [NewFrame EXCEPT !.op = "Run", !.ids = DOMAIN inputs, !.ws = workspace_size]
        f == IF sol.problem.kind = "Convolution" THEN ConvPrologue(sol, inputs, numerics, f0)
             ELSE IF sol.problem.kind = "Activation" THEN Thrown(f0, "Unsupported", "Activation")
             ELSE IF sol.problem.kind = "Bias" THEN Thrown(f0, "Unsupported", "Bias")
             ELSE FusedPrologue(sol, inputs, f0)
    IN  IF f.status = "Probe" /\ workspace_size < sol.workspace_required
        THEN Thrown(f0, "InsufficientWorkspace", "")
        ELSE f

\* A Run that treats a standalone Bias problem as a convolution.
RunPrologue_bias_runs(sol, inputs, workspace_size, numerics) ==
    LET f0 == [NewFrame EXCEPT !.op = "Run", !.ids = DOMAIN inputs, !.ws = workspace_size]
    IN  IF workspace_size < sol.workspace_required
        THEN Thrown(f0, "InsufficientWorkspace", "")
        ELSE IF sol.problem.kind \in {"Convolution", "Bias"}
        THEN ConvPrologue(sol, inputs, numerics, f0)
        ELSE IF sol.problem.kind = "Activation" THEN Thrown(f0, "Unsupported", "Activation")
        ELSE FusedPrologue(sol, inputs, f0)

\* Solution::Run (solution.cpp:52-85), up to the cache probe of the RunImpl it calls.
RunPrologue(sol, inputs, workspace_size, numerics) ==
    LET f0 == [NewFrame EXCEPT !.op = "Run", !.ids = DOMAIN inputs, !.ws = workspace_size]
    IN  IF workspace_size < sol.workspace_required
        THEN Thrown(f0, "InsufficientWorkspace", "")
        ELSE IF sol.problem.kind = "Convolution" THEN ConvPrologue(sol, inputs, numerics, f0)
        ELSE IF sol.problem.kind = "Activation" THEN Thrown(f0, "Unsupported", "Activation")
        ELSE IF sol.problem.kind = "Bias" THEN Thrown(f0, "Unsupported", "Bias")
        ELSE FusedPrologue(sol, inputs, f0)

\* A probe that only accepts an invoker built with the Solution's own perf_cfg.
Probe_private(sol, cache, f) ==
    LET got == GetInvoker(cache, value(f.net_cfg), sol.solver)
        found == IF has_value(got) /\ value(got).perf_cfg = value_or(sol.perf_cfg, "")
                 THEN got ELSE nullopt
    IN  [f EXCEPT !.found = found,
                  !.events = Append(@, Event("GetInvoker", "", SolverToString(sol.solver))),
                  !.status = IF has_value(found) THEN "Hit" ELSE "Miss"]

\* handle.GetInvoker(net_cfg, GetSolver()) (solution.cpp:201, 259)
Probe(sol, cache, f) ==
    LET found == GetInvoker(cache, value(f.net_cfg), sol.solver)
    IN  [f EXCEPT !.found = found,
                  !.events = Append(@, Event("GetInvoker", "", SolverToString(sol.solver))),
                  !.status = IF has_value(found) THEN "Hit" ELSE "Miss"]

\* The invocation and the output check that follows it (solution.cpp:217-218, 231-232;
\* 263, 272 for a fused problem, which checks no numerics).
InvokeEvents(f, invoker) ==
    <<Event("Invoke", "", invoker.solver)>>
    \o (IF f.fused THEN << >>
        ELSE NumericsOutputEvents(f.numerics, value(f.problem_).direction,
                                  value(f.x), value(f.w), value(f.y)))

\* A fast path that returns right after the invocation.
InvokeFound_unchecked(f) ==
    [f EXCEPT !.invoked = f.found,
              !.events = Append(@, Event("Invoke", "", value(f.found).solver)),
              !.status = "Ok"]

\* The fast path (solution.cpp:215-220, 261-265)
InvokeFound(f) ==
    [f EXCEPT !.invoked = f.found,
              !.events = @ \o InvokeEvents(f, value(f.found)),
              !.status = "Ok"]

\* A fallback that asks the solver a second time when it fails.
Fallback_retries(sol, f, find_ok) ==
    LET perf == value_or(sol.perf_cfg, "")
        ask == Event(IF f.fused THEN "MakeFusedSolution" ELSE "FindSolution",
                     perf, SolverToString(sol.solver))
        searched == [f EXCEPT !.events = Append(@, ask)]
    IN  IF ~find_ok
        THEN Thrown([searched EXCEPT !.events = Append(@, ask)], "SolverFailed", "")
        ELSE [searched EXCEPT
                !.built = Some(PrepareInvoker(value(f.net_cfg), sol.solver, perf)),
                !.events = Append(@, Event("PrepareInvoker", "", SolverToString(sol.solver))),
                !.status = "Built"]

\* The resolution fallback (solution.cpp:222-229, 267-270): FindSolution or
\* MakeFusedSolution, then PrepareInvoker.  find_ok is the solver's answer.
Fallback(sol, f, find_ok) ==
    LET perf == value_or(sol.perf_cfg, "")
        searched == [f EXCEPT !.events = Append(@,
                        Event(IF f.fused THEN "MakeFusedSolution" ELSE "FindSolution",
                              perf, SolverToString(sol.solver)))]
    IN  IF ~find_ok THEN Thrown(searched, "SolverFailed", "")
        ELSE [searched EXCEPT
                !.built = Some(PrepareInvoker(value(f.net_cfg), sol.solver, perf)),
                !.events = Append(@, Event("PrepareInvoker", "", SolverToString(sol.solver))),
                !.status = "Built"]

\* handle.RegisterInvoker(invoker, net_cfg, GetSolver().ToString()) (solution.cpp:230, 271)
\* A registration under the solver's numeric id instead of its display name.
RegisterIn_by_id(sol, cache, f) ==
    RegisterInvoker(cache, value(f.built), value(f.net_cfg), ToString(sol.solver))

RegisterKey(sol, f) == CacheKey(value(f.net_cfg), SolverToString(sol.solver))
Registered(sol, f) ==
    [f EXCEPT !.events = Append(@, Event("RegisterInvoker", "", SolverToString(sol.solver))),
              !.status = "Registered"]
RegisterIn(sol, cache, f) ==
    RegisterInvoker(cache, value(f.built), value(f.net_cfg), SolverToString(sol.solver))

\* invoker(handle, invoke_ctx) after the registration (solution.cpp:231-232, 272)
InvokeBuilt(f) ==
    [f EXCEPT !.invoked = f.built,
              !.events = @ \o InvokeEvents(f, value(f.built)),
              !.status = "Ok"]

\* A Run that invokes the invoker it built before it registers it.
RunCall_invokes_first(sol, cache, f, find_ok) ==
    IF f.status # "Probe" THEN [frame |-> f, invokers |-> cache, builds |-> {}]
    ELSE
    LET p == Probe(sol, cache, f)
    IN  IF p.status = "Hit"
        THEN [frame |-> InvokeFound(p), invokers |-> cache, builds |-> {}]
        ELSE
        LET b == Fallback(sol, p, find_ok)
        IN  IF b.status # "Built" THEN [frame |-> b, invokers |-> cache, builds |-> {}]
            ELSE [frame |-> [Registered(sol, InvokeBuilt(b)) EXCEPT !.status = "Ok"],
                  invokers |-> RegisterIn(sol, cache, b),
                  builds |-> {RegisterKey(sol, b)}]

\* One whole Run call on a handle no other call is using: the frame it ends
\* with and the cache it leaves.
\* One whole Run call on a handle no other call is using, from the frame f its
\* prologue ended with: the frame it ends with and the cache it leaves.
RunCall(sol, cache, f, find_ok) ==
    IF f.status # "Probe" THEN [frame |-> f, invokers |-> cache, builds |-> {}]
    ELSE
    LET p == Probe(sol, cache, f)
    IN  IF p.status = "Hit"
        THEN [frame |-> InvokeFound(p), invokers |-> cache, builds |-> {}]
        ELSE
        LET b == Fallback(sol, p, find_ok)
        IN  IF b.status # "Built" THEN [frame |-> b, invokers |-> cache, builds |-> {}]
            ELSE [frame |-> InvokeBuilt(Registered(sol, b)),
                  invokers |-> RegisterIn(sol, cache, b),
                  builds |-> {RegisterKey(sol, b)}]

\* A Run that keeps the transposed problem it worked on as the Solution's problem.
StoredAfterRun_keeps_transposed(sol, f) ==
    IF has_value(f.problem_) THEN [sol EXCEPT !.problem = value(f.problem_)] ELSE sol

\* The Solution after a Run that ended with frame f: Run and RunImpl assign no
\* member; problem_casted is a const reference to the stored Problem and
\* Transpose returns a new one (solution.cpp:57, 133, 152-153, 227).
StoredAfterRun(sol, f) == sol

\* What the environment decides during a call: whether numeric checking is
\* enabled (when the call reads it) and whether the solver produces a construction
\* (when the call asks it).
Prologues(sol, inputs, workspace_size) ==
    LET f == RunPrologue(sol, inputs, workspace_size, TRUE)
    IN  IF f.numerics THEN {f, RunPrologue(sol, inputs, workspace_size, FALSE)} ELSE {f}
SolverAnswers(sol, cache, f) ==
    IF f.status = "Probe" /\ ~has_value(GetInvoker(cache, value(f.net_cfg), sol.solver))
    THEN BOOLEAN ELSE {TRUE}

----------------------------------------------------------------------------
(* The Solutions and Problems the model draws from. *)

\* The descriptors a Problem was built with: a consistent convolution
\* (x = <<N, C>>, w = <<K, C>>, y = <<N, K>>), any subset of them registered.
ProblemDesc(id) == IF id = miopenTensorConvolutionY THEN <<1, 2>> ELSE <<2, 1>>
DescMaps == {[id \in D |-> ProblemDesc(id)] : D \in SUBSET TensorIds}
ConvProblems ==
    [kind : {"Convolution"}, mode : Modes, direction : Directions, tensor_descriptors : DescMaps]
OtherProblems ==
    [kind : {"Activation", "Bias"}, mode : {miopenConvolution},
     direction : {miopenProblemDirectionForward},
     tensor_descriptors : {d \in DescMaps : DOMAIN d = TensorIds}]
FusedProblems ==
    [kind : {"Fused"}, mode : {miopenConvolution}, direction : {miopenProblemDirectionForward},
     tensor_descriptors : DescMaps]
Problems == ConvProblems \cup OtherProblems \cup FusedProblems

PerfCfgs == {nullopt, Some(""), Some("cfg")}
Times == {0, 3}
SolutionsOf(P, S, T, C) ==
    [solver : S, problem : P, time : T, workspace_required : WorkspaceSizes, perf_cfg : C]

EmptyCache == [k \in {} |-> 0]
BumpBuilt(b, keys) ==
    [k \in DOMAIN b \cup keys |-> (IF k \in DOMAIN b THEN b[k] ELSE 0) + (IF k \in keys THEN 1 ELSE 0)]

----------------------------------------------------------------------------
(* The persisted record of a Solution (solution.cpp:291-346).  A JSON object *)
(* is a function from its keys to their values.                             *)

\* Solution::SerializationMetadata::Current()
CurrentValidationNumber == 7
CurrentVersion == 1
Current == [validation |-> CurrentValidationNumber, version |-> CurrentVersion]

\* to_json / from_json of a Problem: its fields, the descriptors as a set of pairs.
ProblemToJson(p) ==
    [kind |-> p.kind, mode |-> p.mode, direction |-> p.direction,
     tensors |-> {<<id, p.tensor_descriptors[id]>> : id \in DOMAIN p.tensor_descriptors}]
ProblemFromJson(j) ==
    [kind |-> j.kind, mode |-> j.mode, direction |-> j.direction,
     tensor_descriptors |->
        [id \in {t[1] : t \in j.tensors} |-> (CHOOSE t \in j.tensors : t[1] = id)[2]]]

WithKey(json, key, v) == [k \in DOMAIN json \cup {key} |-> IF k = key THEN v ELSE json[k]]
WithoutKeys(json, keys) == [k \in DOMAIN json \ keys |-> json[k]]

\* A to_json that leaves out an empty perf_cfg.
to_json_skips_empty(sol) ==
    LET json == [header |-> Current, time |-> sol.time, workspace |-> sol.workspace_required,
                 solver |-> SolverToString(sol.solver), problem |-> ProblemToJson(sol.problem)]
    IN  IF has_value(sol.perf_cfg) /\ value(sol.perf_cfg) # ""
        THEN WithKey(json, "perf_cfg", value(sol.perf_cfg))
        ELSE json

\* to_json(json, Solution) (solution.cpp:304-316)
to_json(sol) ==
    LET json == [header |-> Current, time |-> sol.time, workspace |-> sol.workspace_required,
                 solver |-> SolverToString(sol.solver), problem |-> ProblemToJson(sol.problem)]
    IN  IF has_value(sol.perf_cfg)
        THEN WithKey(json, "perf_cfg", value(sol.perf_cfg))
        ELSE json

\* The fields from_json reads after the header, in order (solution.cpp:337-340);
\* json.at(key) throws for a key the object lacks, and the fields read before
\* it stay assigned.
ReadField(r, json, key) ==
    IF ~r.ok THEN r
    ELSE IF key \notin DOMAIN json THEN [r EXCEPT !.ok = FALSE, !.status = "JsonError"]
    ELSE [r EXCEPT !.solution =
            IF key = "time" THEN [@ EXCEPT !.time = json[key]]
            ELSE IF key = "workspace" THEN [@ EXCEPT !.workspace_required = json[key]]
            ELSE IF key = "solver" THEN [@ EXCEPT !.solver = SolverFromString(json[key])]
            ELSE [@ EXCEPT !.problem = ProblemFromJson(json[key])]]

\* The body of from_json after the header check (solution.cpp:337-345)
ReadBody(json, target) ==
    LET r0 == [ok |-> TRUE, status |-> "Ok", solution |-> target]
        r4 == ReadField(ReadField(ReadField(ReadField(r0, json, "time"), json, "workspace"),
                                  json, "solver"), json, "problem")
    IN  IF ~r4.ok THEN r4
        ELSE [r4 EXCEPT !.solution.perf_cfg =
                IF "perf_cfg" \in DOMAIN json THEN Some(json["perf_cfg"]) ELSE nullopt]

\* A from_json that compares the version before the validation number.
from_json_version_first(json, target) ==
    IF "header" \notin DOMAIN json
    THEN [ok |-> FALSE, status |-> "JsonError", solution |-> target]
    ELSE IF json["header"].version # Current.version
    THEN [ok |-> FALSE, status |-> "VersionMismatch", solution |-> target]
    ELSE IF json["header"].validation # Current.validation
    THEN [ok |-> FALSE, status |-> "CorruptData", solution |-> target]
    ELSE ReadBody(json, target)

\* A from_json that reads the fields into the target before it checks the header.
from_json_reads_first(json, target) ==
    LET body == ReadBody(json, target)
    IN  IF "header" \notin DOMAIN json
        THEN [ok |-> FALSE, status |-> "JsonError", solution |-> target]
        ELSE IF json["header"].validation # Current.validation
        THEN [ok |-> FALSE, status |-> "CorruptData", solution |-> body.solution]
        ELSE IF json["header"].version # Current.version
        THEN [ok |-> FALSE, status |-> "VersionMismatch", solution |-> body.solution]
        ELSE body

\* from_json(json, Solution&) (solution.cpp:318-346)
from_json(json, target) ==
    IF "header" \notin DOMAIN json
    THEN [ok |-> FALSE, status |-> "JsonError", solution |-> target]
    ELSE IF json["header"].validation # Current.validation
    THEN [ok |-> FALSE, status |-> "CorruptData", solution |-> target]
    ELSE IF json["header"].version # Current.version
    THEN [ok |-> FALSE, status |-> "VersionMismatch", solution |-> target]
    ELSE ReadBody(json, target)

\* The Solutions the serialization is exercised on; solver 0 is the invalid id
\* of a default-constructed Solution.
SerProblems ==
    {p \in Problems :
        /\ p.direction \in {miopenProblemDirectionForward, miopenProblemDirectionBackward}
        /\ p.kind \in {"Convolution", "Fused"}
        /\ p.mode = miopenConvolution
        /\ DOMAIN p.tensor_descriptors \in {TensorIds, {miopenTensorConvolutionW}}}
SerSolutions == SolutionsOf(SerProblems, SolverIds \cup {0}, Times, PerfCfgs)
DefaultSolution ==
    [solver |-> 0,
     problem |-> [kind |-> "Convolution", mode |-> miopenConvolution,
                  direction |-> miopenProblemDirectionForward, tensor_descriptors |-> EmptyCache],
     time |-> 0, workspace_required |-> 0, perf_cfg |-> nullopt]
ForeignSolution ==
    [solver |-> 2,
     problem |-> [kind |-> "Fused", mode |-> miopenConvolution,
                  direction |-> miopenProblemDirectionForward,
                  tensor_descriptors |-> [id \in TensorIds |-> ProblemDesc(id)]],
     time |-> 3, workspace_required |-> MaxWorkspace, perf_cfg |-> Some("other")]

\* Records that arrive from elsewhere: any header, a body that may lack fields.
Headers == [validation : {CurrentValidationNumber, CurrentValidationNumber + 1},
            version : {CurrentVersion, CurrentVersion + 1}]
ForeignRecords ==
    {WithoutKeys(WithKey(to_json(ForeignSolution), "header", h), drop) :
        h \in Headers, drop \in {{}, {"perf_cfg"}, {"workspace", "perf_cfg"}}}
    \cup {WithoutKeys(to_json(ForeignSolution), {"header"})}

\* No record yet; into is the Solution object the record was last decoded into,
\* as it was before that decode.
NoRecord == [json |-> EmptyCache, src |-> nullopt, held |-> FALSE, into |-> nullopt]

\* to_json of the Solution at hand.
Encode ==
    /\ record' = [json |-> to_json(solution), src |-> Some(solution), held |-> TRUE,
                  into |-> nullopt]
    /\ last' = [NewFrame EXCEPT !.op = "to_json", !.status = "Ok"]
    /\ UNCHANGED <<solution, invokers, built, runs, thr, twin>>

\* The Solution objects a caller decodes into: the one at hand or another one.
Targets(sol) == {sol, DefaultSolution, ForeignSolution}

\* from_json of the record encoded last into a Solution object.
Decode ==
    /\ record.held
    /\ \E target \in Targets(solution) :
         LET r == from_json(record.json, target)
         IN  /\ solution' = r.solution
             /\ last' = [NewFrame EXCEPT !.op = "from_json", !.status = r.status]
             /\ record' = [record EXCEPT !.into = Some(target)]
    /\ UNCHANGED <<invokers, built, runs, thr, twin>>

\* from_json of a record written elsewhere into a Solution object.
DecodeForeign ==
    /\ \E j \in ForeignRecords, target \in Targets(solution) :
         LET r == from_json(j, target)
         IN  /\ record' = [json |-> j, src |-> nullopt, held |-> FALSE, into |-> Some(target)]
             /\ solution' = r.solution
             /\ last' = [NewFrame EXCEPT !.op = "from_json", !.status = r.status]
    /\ UNCHANGED <<invokers, built, runs, thr, twin>>

SerInit ==
    /\ solution \in SerSolutions
    /\ invokers = EmptyCache
    /\ built = EmptyCache
    /\ last = NewFrame
    /\ runs = 0
    /\ record = NoRecord
    /\ thr = << >>
    /\ twin = NewFrame

SerNext == Encode \/ Decode \/ DecodeForeign

SerSpec == SerInit /\ [][SerNext]_vars

----------------------------------------------------------------------------
(* The sequential specification: one caller, one Solution, one handle.      *)

Init ==
    /\ solution \in SolutionsOf(Problems, {1}, {0}, {Some("cfg")})
    /\ invokers = EmptyCache
    /\ built = EmptyCache
    /\ last = NewFrame
    /\ runs = 0
    /\ record = NoRecord
    /\ thr = << >>
    /\ twin = NewFrame

Run ==
    /\ runs < MaxRuns
    /\ \E inputs \in AllInputs, workspace_size \in WorkspaceSizes :
        \E f \in Prologues(solution, inputs, workspace_size) :
          \E find_ok \in SolverAnswers(solution, invokers, f) :
          LET r == RunCall(solution, invokers, f, find_ok)
          IN  /\ last' = r.frame
              /\ invokers' = r.invokers
              /\ built' = BumpBuilt(built, r.builds)
              /\ solution' = StoredAfterRun(solution, r.frame)
    /\ runs' = runs + 1
    /\ UNCHANGED <<record, thr, twin>>

Next == Run

Spec == Init /\ [][Next]_vars

----------------------------------------------------------------------------
(* Concurrent Run calls on one handle.  RunImpl takes no lock (solution.cpp  *)
(* 200-232, 255-272): between GetInvoker and RegisterInvoker other callers   *)
(* act on the cache.  Each handle operation is one step; everything before   *)
(* the probe works on the caller's own data.                                *)

NumThreads == 2
Threads == 1..NumThreads

Idle == [pc |-> "idle", frame |-> NewFrame]
At(pc, f) == [pc |-> pc, frame |-> f]

\* The calls concurrent callers make: every tensor passed, or X left out.
ConcInputs ==
    {i \in AllInputs :
        /\ DOMAIN i \in {TensorIds, TensorIds \ {miopenTensorConvolutionX}}
        /\ \A id \in DOMAIN i : ~has_value(i[id].descriptor)}
ConcProblems ==
    {p \in Problems : p.kind \in {"Convolution", "Fused"} /\ DOMAIN p.tensor_descriptors = TensorIds}

\* Run up to handle.GetInvoker (solution.cpp:52-200, 235-259)
Call(t) ==
    /\ thr[t].pc = "idle"
    /\ runs < MaxRuns
    /\ \E inputs \in ConcInputs, workspace_size \in WorkspaceSizes :
         \E f \in Prologues(solution, inputs, workspace_size) :
           IF f.status = "Probe"
           THEN thr' = [thr EXCEPT ![t] = At("probe", f)] /\ UNCHANGED last
           ELSE last' = f /\ UNCHANGED thr
    /\ runs' = runs + 1
    /\ UNCHANGED <<solution, invokers, built, record, twin>>

\* handle.GetInvoker(net_cfg, GetSolver()) (solution.cpp:201, 259)
GetInvokerStep(t) ==
    /\ thr[t].pc = "probe"
    /\ LET p == Probe(solution, invokers, thr[t].frame)
       IN  thr' = [thr EXCEPT ![t] = At(IF p.status = "Hit" THEN "found" ELSE "fallback", p)]
    /\ UNCHANGED <<solution, invokers, built, last, runs, record, twin>>

\* (*existingInvoker)(handle, invoke_ctx) and return (solution.cpp:215-220, 261-265)
InvokeFoundStep(t) ==
    /\ thr[t].pc = "found"
    /\ last' = InvokeFound(thr[t].frame)
    /\ thr' = [thr EXCEPT ![t] = Idle]
    /\ UNCHANGED <<solution, invokers, built, runs, record, twin>>

\* FindSolution / MakeFusedSolution and handle.PrepareInvoker (solution.cpp:222-229, 267-270)
FallbackStep(t) ==
    /\ thr[t].pc = "fallback"
    /\ \E find_ok \in BOOLEAN :
         LET b == Fallback(solution, thr[t].frame, find_ok)
         IN  IF b.status = "Built"
             THEN /\ thr' = [thr EXCEPT ![t] = At("register", b)]
                  /\ built' = BumpBuilt(built, {RegisterKey(solution, b)})
                  /\ UNCHANGED last
             ELSE /\ thr' = [thr EXCEPT ![t] = Idle]
                  /\ last' = b
                  /\ UNCHANGED built
    /\ UNCHANGED <<solution, invokers, runs, record, twin>>

\* handle.RegisterInvoker(invoker, net_cfg, GetSolver().ToString()) (solution.cpp:230, 271)
RegisterStep(t) ==
    /\ thr[t].pc = "register"
    /\ invokers' = RegisterIn(solution, invokers, thr[t].frame)
    /\ thr' = [thr EXCEPT ![t] = At("invoke", Registered(solution, thr[t].frame))]
    /\ UNCHANGED <<solution, built, last, runs, record, twin>>

\* invoker(handle, invoke_ctx) and return (solution.cpp:231-232, 272)
InvokeBuiltStep(t) ==
    /\ thr[t].pc = "invoke"
    /\ last' = InvokeBuilt(thr[t].frame)
    /\ thr' = [thr EXCEPT ![t] = Idle]
    /\ UNCHANGED <<solution, invokers, built, runs, record, twin>>

ConcInit ==
    /\ solution \in SolutionsOf(ConcProblems, {1}, {0}, {Some("cfg")})
    /\ invokers = EmptyCache
    /\ built = EmptyCache
    /\ last = NewFrame
    /\ runs = 0
    /\ record = NoRecord
    /\ thr = [t \in Threads |-> Idle]
    /\ twin = NewFrame

ConcNext ==
    \E t \in Threads :
        \/ Call(t)
        \/ GetInvokerStep(t)
        \/ InvokeFoundStep(t)
        \/ FallbackStep(t)
        \/ RegisterStep(t)
        \/ InvokeBuiltStep(t)

ConcSpec == ConcInit /\ [][ConcNext]_vars

----------------------------------------------------------------------------
(* A transpose-mode Run next to the same call made on the non-transpose     *)
(* form: the structurally transposed Problem, the X and Y inputs exchanged. *)

\* The non-transpose form of a transpose-mode convolution Problem.
NonTransposeForm(problem) == [MakeTransposed(problem) EXCEPT !.mode = miopenConvolution]

\* The caller's inputs with the X and Y entries exchanged (x = B, w = W, y = A).
SwappedInputs(inputs) ==
    [id \in {TransposedId(j) : j \in DOMAIN inputs} |-> inputs[TransposedId(id)]]

\* Transpose-mode Problems: those whose own descriptors are a consistent
\* convolution, and those whose transposed form is one.
TransposeProblems ==
    LET own == {p \in ConvProblems : p.mode = miopenTranspose}
    IN  own \cup {[MakeTransposed(p) EXCEPT !.direction = p.direction] : p \in own}

\* Solution::Run of a transpose-mode Solution (solution.cpp:52-85, 127-233), and
\* the same Run of its non-transpose form on the same handle state.
RunTransposed ==
    /\ runs < MaxRuns
    /\ \E inputs \in AllInputs, workspace_size \in WorkspaceSizes,
          numerics \in BOOLEAN, find_ok \in BOOLEAN :
         LET other == [solution EXCEPT !.problem = NonTransposeForm(@)]
             r == RunCall(solution, invokers,
                          RunPrologue(solution, inputs, workspace_size, numerics), find_ok)
             q == RunCall(other, invokers,
                          RunPrologue(other, SwappedInputs(inputs), workspace_size, numerics),
                          find_ok)
         IN  /\ last' = r.frame
             /\ twin' = q.frame
             /\ invokers' = r.invokers
             /\ built' = BumpBuilt(built, r.builds)
    /\ runs' = runs + 1
    /\ UNCHANGED <<solution, record, thr>>

TransInit ==
    /\ solution \in SolutionsOf(TransposeProblems, {1}, {0}, {Some("cfg")})
    /\ invokers = EmptyCache
    /\ built = EmptyCache
    /\ last = NewFrame
    /\ runs = 0
    /\ record = NoRecord
    /\ thr = << >>
    /\ twin = NewFrame

TransNext == RunTransposed

TransSpec == TransInit /\ [][TransNext]_vars

----------------------------------------------------------------------------
(* Several Solutions run on one handle, one call at a time.                 *)

\* Problems whose Runs reach the cache: a Forward and a Backward convolution, a
\* transpose-mode Forward convolution whose transposed form is that Backward
\* one, and a fused problem.
SharedProblems ==
    {p \in ConvProblems \cup FusedProblems :
        /\ p.mode = miopenConvolution
        /\ p.direction \in {miopenProblemDirectionForward, miopenProblemDirectionBackward}
        /\ DOMAIN p.tensor_descriptors = TensorIds}
    \cup {p \in TransposeProblems \ ConvProblems :
            /\ p.direction = miopenProblemDirectionForward
            /\ DOMAIN p.tensor_descriptors = TensorIds}
SharedSolutions ==
    [solver : SolverIds, problem : SharedProblems, time : {0}, workspace_required : {0},
     perf_cfg : {nullopt, Some("cfg")}]

\* Solution::Run of any of the Solutions (solution.cpp:52-85); solution is the
\* one that ran.
RunAny ==
    /\ runs < MaxRuns
    /\ \E sol \in SharedSolutions, inputs \in ConcInputs, workspace_size \in WorkspaceSizes :
        \E f \in Prologues(sol, inputs, workspace_size) :
          \E find_ok \in SolverAnswers(sol, invokers, f) :
          LET r == RunCall(sol, invokers, f, find_ok)
          IN  /\ solution' = sol
              /\ last' = r.frame
              /\ invokers' = r.invokers
              /\ built' = BumpBuilt(built, r.builds)
    /\ runs' = runs + 1
    /\ UNCHANGED <<record, thr, twin>>

SharedInit ==
    /\ solution \in SharedSolutions
    /\ invokers = EmptyCache
    /\ built = EmptyCache
    /\ last = NewFrame
    /\ runs = 0
    /\ record = NoRecord
    /\ thr = << >>
    /\ twin = NewFrame

SharedNext == RunAny

SharedSpec == SharedInit /\ [][SharedNext]_vars

----------------------------------------------------------------------------
(* Properties of a Run call, read off the frame it ended with.             *)

\* The call touched neither the cache nor the device, and resolved nothing.
NothingDone(f) ==
    /\ f.events = << >>
    /\ f.found = nullopt /\ f.built = nullopt /\ f.invoked = nullopt
    /\ f.invoke_ctx = nullopt /\ f.net_cfg = nullopt
\* The call may have resolved its arguments, but made no call on the handle,
\* the solver or an invoker.
NoHandleUse(f) ==
    /\ EventNames(f) \subseteq {"checkNumericsInput"}
    /\ f.found = nullopt /\ f.built = nullopt /\ f.invoked = nullopt

\* C3: Run fails with InsufficientWorkspace exactly when the workspace size is
\* below the Solution's workspace_required, whatever the problem variant and the
\* inputs are, and then it has resolved no argument, probed no cache, run no
\* fallback and invoked nothing.
C3_WorkspaceCheckedFirst ==
    last.op = "Run" =>
        /\ (last.status = "InsufficientWorkspace") <=> (last.ws < solution.workspace_required)
        /\ last.ws < solution.workspace_required =>
              /\ NothingDone(last)
              /\ last.x = nullopt /\ last.w = nullopt /\ last.y = nullopt
              /\ last.problem_ = nullopt

\* A convolution Run with too small a workspace and no inputs at all, on a
\* handle that already caches an invoker.
C3_Witness ==
    /\ last.op = "Run" /\ last.status = "InsufficientWorkspace"
    /\ solution.problem.kind = "Convolution" /\ last.ids = {}
    /\ DOMAIN invokers # {}

\* C4: a convolution Run (its workspace sufficient, so that the arguments are
\* looked at) whose inputs lack one of the ids X, W, Y fails with
\* MissingArgument (miopenStatusInvalidValue) and uses neither the handle, the
\* solver nor an invoker.
C4_MissingInputFails ==
    (/\ last.op = "Run"
     /\ solution.problem.kind = "Convolution"
     /\ last.ws >= solution.workspace_required
     /\ last.ids # TensorIds)
    => /\ last.status = "MissingArgument"
       /\ StatusOf(last.status) = "miopenStatusInvalidValue"
       /\ last.errArg \in TensorIds
       /\ NothingDone(last)

\* Such a Run, with only W missing, the Problem holding every descriptor and
\* the handle already caching an invoker.
C4_Witness ==
    /\ last.op = "Run" /\ last.status = "MissingArgument"
    /\ solution.problem.kind = "Convolution"
    /\ DOMAIN solution.problem.tensor_descriptors = TensorIds
    /\ last.ids = {miopenTensorConvolutionX, miopenTensorConvolutionY}
    /\ DOMAIN invokers # {}

\* C5: in a convolution Run that has resolved its arguments, with the direction
\* and the Y and W bindings as RunImpl holds them at the check (the stored
\* Problem's in convolution mode): if the direction is Backward and Y's
\* dimension 1 differs from W's dimension 0 the Run fails with InvalidShape
\* having used neither the handle, the solver nor an invoker; and InvalidShape
\* is raised in no other case, so never for Forward or BackwardWeights.
C5_BackwardShapeCheck ==
    (last.op = "Run" /\ solution.problem.kind = "Convolution" /\ has_value(last.problem_))
    => LET dir == value(last.problem_).direction
           mismatch == GetLength(value(value(last.y).descriptor), 1)
                       # GetLength(value(value(last.w).descriptor), 0)
       IN  /\ (dir = miopenProblemDirectionBackward /\ mismatch)
                => (last.status = "InvalidShape" /\ NothingDone(last))
           /\ last.status = "InvalidShape"
                => (dir = miopenProblemDirectionBackward /\ mismatch)
           /\ solution.problem.mode = miopenConvolution
                => dir = solution.problem.direction

\* A Backward convolution (convolution mode) failing the shape check, and the
\* handle already caching an invoker for the same Solution.
C5_Witness ==
    /\ last.op = "Run" /\ last.status = "InvalidShape"
    /\ solution.problem.mode = miopenConvolution
    /\ solution.problem.direction = miopenProblemDirectionBackward
    /\ DOMAIN invokers # {}

\* C9: a Run of a standalone Activation or Bias problem with sufficient
\* workspace fails with Unsupported whatever the inputs, and touches neither the
\* cache nor the device.
C9_StandaloneUnsupported ==
    (/\ last.op = "Run"
     /\ solution.problem.kind \in {"Activation", "Bias"}
     /\ last.ws >= solution.workspace_required)
    => /\ last.status = "Unsupported"
       /\ StatusOf(last.status) = "miopenStatusNotImplemented"
       /\ NothingDone(last)
       /\ invokers = EmptyCache

\* A Bias problem run with all three inputs and enough workspace.
C9_Witness ==
    /\ last.op = "Run" /\ last.status = "Unsupported"
    /\ solution.problem.kind = "Bias"
    /\ last.ids = TensorIds
    /\ last.ws >= solution.workspace_required

\* C10: for a fused Problem, the lookup of each argument the plan fixed fails
\* with MissingArgument when the id is absent from the caller's inputs, fails
\* with Unsupported when the caller's RunInput carries a descriptor other than
\* the fixed one, and returns the caller's buffer when it carries none (or the
\* same one); a fused Run with sufficient workspace ends with the failure of the
\* first argument whose lookup fails, before any handle call, and otherwise
\* binds every argument to the caller's buffer.
C10_FusedBufferLookup ==
    solution.problem.kind = "Fused" =>
        LET fixed == solution.problem.tensor_descriptors
        IN  /\ \A inputs \in AllInputs :
                 /\ \A id \in DOMAIN fixed :
                      LET r == buffer_getter(inputs, id, fixed[id])
                      IN  /\ id \notin DOMAIN inputs
                                => (~r.ok /\ r.kind = "MissingArgument")
                          /\ (/\ id \in DOMAIN inputs
                              /\ has_value(inputs[id].descriptor)
                              /\ value(inputs[id].descriptor) # fixed[id])
                                => (~r.ok /\ r.kind = "Unsupported")
                          /\ (id \in DOMAIN inputs /\ ~has_value(inputs[id].descriptor))
                                => (r.ok /\ r.buffer = inputs[id].buffer)
                 /\ LET f == RunPrologue(solution, inputs, solution.workspace_required, TRUE)
                        bad == {id \in DOMAIN fixed :
                                   \/ id \notin DOMAIN inputs
                                   \/ /\ has_value(inputs[id].descriptor)
                                      /\ value(inputs[id].descriptor) # fixed[id]}
                    IN  IF bad = {}
                        THEN /\ f.status = "Probe"
                             /\ \A id \in DOMAIN fixed :
                                   value(f.invoke_ctx).args[id] = inputs[id].buffer
                        ELSE /\ f.status \in {"MissingArgument", "Unsupported"}
                             /\ f.errArg \in bad
                             /\ (f.status = "MissingArgument") <=> (f.errArg \notin DOMAIN inputs)
                             /\ NothingDone(f)
            /\ (last.op = "Run" /\ last.fused /\ last.status = "MissingArgument")
                  => (last.errArg \in DOMAIN fixed \ last.ids /\ NothingDone(last))
            /\ (last.op = "Run" /\ last.fused /\ last.status = "Unsupported")
                  => (last.errArg \in DOMAIN fixed \cap last.ids /\ NothingDone(last))

\* A fused Run that failed with Unsupported on W although every input was
\* present, on a handle that already caches the fused plan's invoker.
C10_Witness ==
    /\ last.op = "Run" /\ last.fused /\ last.status = "Unsupported"
    /\ last.errArg = miopenTensorConvolutionW
    /\ last.ids = TensorIds
    /\ DOMAIN invokers # {}

----------------------------------------------------------------------------
(* Caching over a sequence of Run calls by one caller.                     *)

FallbackCalls(f) == CountEvents(f, "FindSolution") + CountEvents(f, "MakeFusedSolution")
Insertions(f) == CountEvents(f, "RegisterInvoker")
Invocations(f) == CountEvents(f, "Invoke")
KeyOf(sol, f) == CacheKey(value(f.net_cfg), SolverToString(sol.solver))

\* C1: a successful Run that found no invoker for its key (signature, solver)
\* made exactly one fallback call and one insertion, and the key is cached
\* afterwards with the invoker it invoked; a successful Run that found one made
\* no fallback call and no insertion and invoked the cached invoker; and over
\* the whole sequence of Runs no key was built more than once, so every Run
\* after the first successful one with the same key found the entry the first
\* one registered.  Convolution and fused problems alike.
C1_IdempotentCaching ==
    /\ (last.op = "Run" /\ last.status = "Ok") =>
          LET key == KeyOf(solution, last)
          IN  /\ key \in DOMAIN invokers
              /\ last.invoked = Some(invokers[key])
              /\ Invocations(last) = 1
              /\ IF has_value(last.found)
                 THEN FallbackCalls(last) = 0 /\ Insertions(last) = 0 /\ last.invoked = last.found
                 ELSE FallbackCalls(last) = 1 /\ Insertions(last) = 1 /\ last.invoked = last.built
    /\ (last.op = "Run" /\ last.status # "Ok") => (Insertions(last) = 0 /\ Invocations(last) = 0)
    /\ DOMAIN built = DOMAIN invokers
    /\ \A k \in DOMAIN built : built[k] = 1

\* The second of two successful convolution Runs: a hit on the entry the first
\* one built.
C1_Witness ==
    /\ runs = 2
    /\ last.op = "Run" /\ last.status = "Ok" /\ ~last.fused
    /\ has_value(last.found)
    /\ FallbackCalls(last) = 0
    /\ built[KeyOf(solution, last)] = 1

----------------------------------------------------------------------------
(* Properties of the persisted record.                                      *)

HeaderOf(rec) == rec.json["header"]
SameSolution(a, b) ==
    /\ a.time = b.time
    /\ a.workspace_required = b.workspace_required
    /\ SolverToString(a.solver) = SolverToString(b.solver)
    /\ a.problem = b.problem
    /\ a.perf_cfg = b.perf_cfg

\* C6: decoding a record whose validation number is not the current one fails
\* with CorruptData whatever its version and its other fields are; decoding one
\* with the current validation number and another version fails with
\* VersionMismatch; the two failures carry different status codes; and a record
\* whose header is current fails with neither.
C6_HeaderValidation ==
    (last.op = "from_json" /\ "header" \in DOMAIN record.json) =>
        LET h == HeaderOf(record)
        IN  /\ h.validation # CurrentValidationNumber => last.status = "CorruptData"
            /\ (h.validation = CurrentValidationNumber /\ h.version # CurrentVersion)
                  => last.status = "VersionMismatch"
            /\ h = Current => last.status \notin {"CorruptData", "VersionMismatch"}
            /\ StatusOf("CorruptData") # StatusOf("VersionMismatch")

\* A decode that failed with CorruptData on a record whose version is wrong as
\* well and whose body lacks fields.
C6_Witness ==
    /\ last.op = "from_json" /\ last.status = "CorruptData"
    /\ "header" \in DOMAIN record.json
    /\ HeaderOf(record).version # CurrentVersion
    /\ "workspace" \notin DOMAIN record.json

\* C7: decoding the encoding of a Solution, into whatever Solution object,
\* succeeds and leaves that object equal to the encoded Solution in time,
\* workspace, solver identity string, problem and perf_cfg: an absent perf_cfg
\* is absent again, a present one (the empty string too) is present with its value.
C7_RoundTrip ==
    (last.op = "from_json" /\ has_value(record.src)) =>
        /\ last.status = "Ok"
        /\ SameSolution(solution, value(record.src))
        /\ has_value(solution.perf_cfg) <=> ("perf_cfg" \in DOMAIN record.json)

\* The encoding of a Solution with the empty string as perf_cfg, decoded.
C7_Witness ==
    /\ last.op = "from_json" /\ last.status = "Ok"
    /\ has_value(record.src)
    /\ value(record.src).perf_cfg = Some("")
    /\ value(record.src).problem.kind = "Fused"
    /\ solution.perf_cfg = Some("")

----------------------------------------------------------------------------
(* Concurrent callers.                                                      *)

InFlight(t) == thr[t].pc # "idle"
RanFallback(t) == InFlight(t) /\ FallbackCalls(thr[t].frame) > 0

\* C2: of the concurrent Run calls on one handle whose key (signature, solver)
\* is not cached, at most one executes the resolution fallback: no two calls in
\* flight have both run it for the same key, and no key is ever built twice.
C2_AtMostOneConstruction ==
    /\ \A k \in DOMAIN built : built[k] <= 1
    /\ \A t, u \in Threads :
          (/\ t # u
           /\ RanFallback(t) /\ RanFallback(u)
           /\ KeyOf(solution, thr[t].frame) = KeyOf(solution, thr[u].frame))
          => FALSE

\* Two calls in flight that both missed on the same key and both built an
\* invoker for it, one of them already registered.
C2_Witness ==
    \E t, u \in Threads :
        /\ t # u
        /\ thr[t].pc = "invoke" /\ thr[u].pc = "register"
        /\ ~has_value(thr[t].frame.found) /\ ~has_value(thr[u].frame.found)
        /\ KeyOf(solution, thr[t].frame) = KeyOf(solution, thr[u].frame)
        /\ KeyOf(solution, thr[t].frame) \in DOMAIN invokers
        /\ built[KeyOf(solution, thr[t].frame)] = 2

----------------------------------------------------------------------------
(* Transpose mode against the non-transpose form.                           *)

Compared == last.op = "Run" /\ twin.op = "Run"
SameOutcome(f, g) ==
    /\ f.status = g.status
    /\ f.invoke_ctx = g.invoke_ctx
    /\ f.net_cfg = g.net_cfg
    /\ f.found = g.found
    /\ f.invoked = g.invoked
Relabelled(f) ==
    has_value(f.x) =>
        /\ value(f.x).buffer = BufferOf(miopenTensorConvolutionY)
        /\ value(f.w).buffer = BufferOf(miopenTensorConvolutionW)
        /\ value(f.y).buffer = BufferOf(miopenTensorConvolutionX)

\* C8: a Run of a transpose-mode convolution Problem P with inputs (x = A, w = W,
\* y = B) ends as the Run of the non-transpose form of MakeTransposed(P) with
\* inputs (x = B, w = W, y = A) on the same handle does: the same invocation
\* parameters, the same cache key, the same hit or miss and the same status;
\* and it binds the caller's Y buffer in the X role, the caller's X buffer in the
\* Y role, and W's buffer unchanged.
C8_TransposeEquivalence ==
    Compared => (SameOutcome(last, twin) /\ Relabelled(last))

\* A transpose-mode Run of a Problem that registers X, W and Y succeeded, and
\* so did the non-transpose form's Run with the same invocation parameters, but
\* the two probed different keys.
C8_Witness ==
    /\ Compared
    /\ DOMAIN solution.problem.tensor_descriptors = TensorIds
    /\ last.status = "Ok" /\ twin.status = "Ok"
    /\ last.invoke_ctx = twin.invoke_ctx
    /\ last.net_cfg # twin.net_cfg

\* The equivalence where the Problem registers X, W and Y and the caller
\* overrides no descriptor.
C8_EquivalenceWithoutOverrides ==
    (/\ Compared
     /\ DOMAIN solution.problem.tensor_descriptors = TensorIds
     /\ has_value(last.x) /\ has_value(twin.x)
     /\ \A id \in TensorIds : value(twin.problem_).tensor_descriptors[id]
                                = value(last.problem_).tensor_descriptors[id])
    => (SameOutcome(last, twin) /\ Relabelled(last))

----------------------------------------------------------------------------
(* The order of the steps of one Run.                                       *)

Before(f, a, b) == IndexOf(f, a) < IndexOf(f, b)

\* C11: a successful Run that missed registered the invoker it built under its
\* key (signature, solver) before it invoked it, and invoked it once; a
\* successful Run that hit invoked the cached invoker once, with no fallback
\* call and no insertion.  So every successful Run made exactly one invocation.
C11_InsertBeforeInvoke ==
    (last.op = "Run" /\ last.status = "Ok") =>
        /\ Invocations(last) = 1
        /\ IF has_value(last.found)
           THEN /\ FallbackCalls(last) = 0
                /\ Insertions(last) = 0
                /\ last.built = nullopt
                /\ last.invoked = last.found
                /\ Before(last, "GetInvoker", "Invoke")
           ELSE /\ Insertions(last) = 1
                /\ CountEvents(last, "PrepareInvoker") = 1
                /\ Before(last, "PrepareInvoker", "RegisterInvoker")
                /\ Before(last, "RegisterInvoker", "Invoke")
                /\ invokers[KeyOf(solution, last)] = value(last.built)
                /\ last.invoked = last.built

\* A fused Run that missed, built, registered and invoked.
C11_Witness ==
    /\ last.op = "Run" /\ last.status = "Ok" /\ last.fused
    /\ ~has_value(last.found)
    /\ Insertions(last) = 1 /\ Invocations(last) = 1
    /\ KeyOf(solution, last) \in DOMAIN invokers

----------------------------------------------------------------------------
(* A solver that produces no construction.                                  *)

RunStep == runs' = runs + 1
SolverCalls(f) ==
    {i \in 1..Len(f.events) : f.events[i][1] \in {"FindSolution", "MakeFusedSolution"}}

\* C12: a Run whose solver fails in the fallback ends with that error after one
\* call of the Solution's own solver (no retry, no other solver), builds,
\* registers and invokes nothing and leaves the cache as it was; and the next
\* Run that probes the same key misses again and runs the fallback again.
C12_SolverFailure ==
    [][RunStep =>
        /\ last'.status = "SolverFailed" =>
              /\ Cardinality(SolverCalls(last')) = 1
              /\ \A i \in SolverCalls(last') :
                    last'.events[i][3] = SolverToString(solution.solver)
              /\ CountEvents(last', "PrepareInvoker") = 0
              /\ Insertions(last') = 0 /\ Invocations(last') = 0
              /\ last'.built = nullopt /\ last'.invoked = nullopt
              /\ invokers' = invokers /\ built' = built
              /\ KeyOf(solution, last') \notin DOMAIN invokers'
        /\ (/\ last.status = "SolverFailed"
            /\ has_value(last'.net_cfg)
            /\ KeyOf(solution, last') = KeyOf(solution, last)) =>
              /\ ~has_value(last'.found)
              /\ Cardinality(SolverCalls(last')) = 1
    ]_vars

\* The second Run failed in the solver and the cache is still empty.
C12_Witness ==
    /\ runs = 2
    /\ last.op = "Run" /\ last.status = "SolverFailed"
    /\ FallbackCalls(last) = 1
    /\ invokers = EmptyCache

----------------------------------------------------------------------------
(* The invocation parameters of a convolution Run.                          *)

Bound(ri) == [descriptor |-> value(value(ri).descriptor), buffer |-> value(ri).buffer]

\* C13: the invocation parameters follow the direction of the problem RunImpl
\* holds after the transpose step: Forward binds (X in, W in, Y out), Backward
\* (Y in, W in, X out), BackwardWeights (Y in, X in, W out), each with the
\* caller's workspace size; a Run with any other direction builds no
\* parameters and ends before the cache is probed, with Unsupported once
\* AsConvolution and the group-count validation (solution.cpp:171-173) passed:
\* no lookup, no fallback, no insertion, no invocation.
C13_InvokeParamsByDirection ==
    (last.op = "Run" /\ ~last.fused /\ has_value(last.problem_)) =>
        LET dir == value(last.problem_).direction
        IN  /\ has_value(last.invoke_ctx) =>
                 LET c == value(last.invoke_ctx)
                 IN  /\ c.workSpaceSize = last.ws
                     /\ dir = miopenProblemDirectionForward =>
                           /\ c.type = "DataInvokeParams" /\ c.gfx90aFp16alt = "GetFwd"
                           /\ c.in1 = Bound(last.x) /\ c.in2 = Bound(last.w)
                           /\ c.out = Bound(last.y)
                     /\ dir = miopenProblemDirectionBackward =>
                           /\ c.type = "DataInvokeParams" /\ c.gfx90aFp16alt = "GetBwd"
                           /\ c.in1 = Bound(last.y) /\ c.in2 = Bound(last.w)
                           /\ c.out = Bound(last.x)
                     /\ dir = miopenProblemDirectionBackwardWeights =>
                           /\ c.type = "WrWInvokeParams" /\ c.gfx90aFp16alt = "GetWrW"
                           /\ c.in1 = Bound(last.y) /\ c.in2 = Bound(last.x)
                           /\ c.out = Bound(last.w)
                     /\ dir \in {miopenProblemDirectionForward, miopenProblemDirectionBackward,
                                 miopenProblemDirectionBackwardWeights}
            /\ dir \notin {miopenProblemDirectionForward, miopenProblemDirectionBackward,
                           miopenProblemDirectionBackwardWeights} =>
                 /\ last.status \in {"Unsupported", "MissingArgument", "GroupCount"}
                 /\ (/\ CanAsConvolution(value(last.problem_))
                     /\ ValidateGroupCount(value(value(last.x).descriptor),
                                           value(value(last.w).descriptor)))
                       => (last.status = "Unsupported"
                           /\ StatusOf(last.status) = "miopenStatusNotImplemented")
                 /\ NoHandleUse(last)
                 /\ last.invoke_ctx = nullopt /\ last.net_cfg = nullopt
            /\ has_value(last.net_cfg) => has_value(last.invoke_ctx)

\* A Run of a problem with another direction value, numeric checking enabled,
\* that ended with Unsupported.
C13_Witness ==
    /\ last.op = "Run" /\ ~last.fused /\ has_value(last.problem_)
    /\ value(last.problem_).direction = "Other"
    /\ last.status = "Unsupported"
    /\ last.numerics

----------------------------------------------------------------------------
(* Transpose mode: what the later steps of RunImpl work on.                 *)

BufferX == BufferOf(miopenTensorConvolutionX)
BufferW == BufferOf(miopenTensorConvolutionW)
BufferY == BufferOf(miopenTensorConvolutionY)
InputChecks(f) ==
    {<<f.events[i][2], f.events[i][3]>> :
        i \in {j \in 1..Len(f.events) : f.events[j][1] = "checkNumericsInput"}}
Dim(ri, i) == GetLength(value(value(ri).descriptor), i)

\* C14: in a transpose-mode Run that resolved its arguments, the x role holds
\* the caller's Y binding and the y role the caller's X binding, the problem is
\* the transposed one with these descriptors registered, and everything after
\* uses them: the shape check fires exactly when the transposed direction is
\* Backward (stored Forward) and the caller's X, in the y role, mismatches W;
\* the numeric input checks and the invocation parameters take the buffers by
\* the swapped roles and the transposed direction.
C14_TransposeBeforeChecks ==
    (/\ last.op = "Run" /\ solution.problem.kind = "Convolution"
     /\ solution.problem.mode = miopenTranspose /\ has_value(last.problem_)) =>
        LET stored == solution.problem.direction
            dir == value(last.problem_).direction
        IN  /\ value(last.x).buffer = BufferY
            /\ value(last.w).buffer = BufferW
            /\ value(last.y).buffer = BufferX
            /\ dir = TransposedDirection(stored)
            /\ stored = miopenProblemDirectionForward => dir = miopenProblemDirectionBackward
            /\ stored = miopenProblemDirectionBackward => dir = miopenProblemDirectionForward
            /\ value(last.problem_).tensor_descriptors =
                  [id \in TensorIds |->
                      IF id = miopenTensorConvolutionX THEN value(value(last.x).descriptor)
                      ELSE IF id = miopenTensorConvolutionW THEN value(value(last.w).descriptor)
                      ELSE value(value(last.y).descriptor)]
            /\ last.status = "InvalidShape" <=>
                  (stored = miopenProblemDirectionForward /\ Dim(last.y, 1) # Dim(last.w, 0))
            /\ (last.numerics /\ stored = miopenProblemDirectionForward) =>
                  InputChecks(last) = {<<"w", BufferW>>, <<"y", BufferX>>}
            /\ (last.numerics /\ stored = miopenProblemDirectionBackward) =>
                  InputChecks(last) = {<<"x", BufferY>>, <<"w", BufferW>>}
            /\ (last.numerics /\ stored = miopenProblemDirectionBackwardWeights) =>
                  InputChecks(last) = {<<"x", BufferY>>, <<"y", BufferX>>}
            /\ has_value(last.invoke_ctx) =>
                  LET c == value(last.invoke_ctx)
                  IN  /\ stored = miopenProblemDirectionForward =>
                            (c.in1.buffer = BufferX /\ c.out.buffer = BufferY
                             /\ c.gfx90aFp16alt = "GetBwd")
                      /\ stored = miopenProblemDirectionBackward =>
                            (c.in1.buffer = BufferY /\ c.out.buffer = BufferX
                             /\ c.gfx90aFp16alt = "GetFwd")
                      /\ stored = miopenProblemDirectionBackwardWeights =>
                            (c.in1.buffer = BufferX /\ c.in2.buffer = BufferY
                             /\ c.out.buffer = BufferW)

\* A transpose-mode Run of a stored Backward problem, numeric checking enabled,
\* that succeeded although the caller's Y, now in the x role, mismatches W as
\* the shape check would read it before the swap.
C14_Witness ==
    /\ last.op = "Run" /\ last.status = "Ok" /\ last.numerics
    /\ solution.problem.kind = "Convolution" /\ solution.problem.mode = miopenTranspose
    /\ solution.problem.direction = miopenProblemDirectionBackward
    /\ Dim(last.x, 1) # Dim(last.w, 0)

----------------------------------------------------------------------------
(* Argument resolution.                                                     *)

\* C15: for an id the caller's inputs hold, get_input_checked returns the
\* caller's RunInput with its own descriptor when it carries one (whatever the
\* Problem registers), with the Problem's registered descriptor when it carries
\* none, and fails when neither exists; the buffer is the caller's in every
\* result.  A Run that fails so ends with MissingArgument and has done nothing.
C15_ArgumentResolution ==
    solution.problem.kind = "Convolution" =>
        LET registered == solution.problem.tensor_descriptors
        IN  /\ \A inputs \in AllInputs : \A id \in DOMAIN inputs :
                 LET r == get_input_checked(solution.problem, inputs, id)
                     given == inputs[id]
                 IN  /\ has_value(given.descriptor) =>
                           (r.ok /\ value(r.ret) = given)
                     /\ (~has_value(given.descriptor) /\ id \in DOMAIN registered) =>
                           /\ r.ok
                           /\ value(r.ret).descriptor = Some(registered[id])
                           /\ value(r.ret).buffer = given.buffer
                     /\ (~has_value(given.descriptor) /\ id \notin DOMAIN registered) => ~r.ok
            /\ (last.op = "Run" /\ last.status = "MissingArgument" /\ last.x = nullopt) =>
                 /\ StatusOf(last.status) = "miopenStatusInvalidValue"
                 /\ last.errArg \notin last.ids \/ last.errArg \notin DOMAIN registered
                 /\ NothingDone(last)
            /\ (last.op = "Run" /\ has_value(last.x)
                /\ solution.problem.mode = miopenConvolution) =>
                 /\ TensorIds \subseteq last.ids
                 /\ value(last.x).buffer = BufferX
                 /\ value(last.w).buffer = BufferW
                 /\ value(last.y).buffer = BufferY

\* A Run whose inputs hold W without a descriptor while the Problem registers
\* none for W either: resolution failed on an id that is present.
C15_Witness ==
    /\ last.op = "Run" /\ last.status = "MissingArgument"
    /\ last.errArg = miopenTensorConvolutionW
    /\ miopenTensorConvolutionW \in last.ids
    /\ miopenTensorConvolutionW \notin DOMAIN solution.problem.tensor_descriptors
    /\ last.x = nullopt

----------------------------------------------------------------------------
(* One cache for all the Solutions run on a handle.                         *)

Probed(f) == has_value(f.net_cfg)
Kept(old, new) == \A k \in DOMAIN old : k \in DOMAIN new /\ new[k] = old[k]

\* C16: a Run of whatever Solution that probes a key the cache already holds,
\* inserted by a Run of this or of another Solution, hits: it makes no fallback
\* call and no insertion and invokes that entry; every Run leaves the entries
\* the cache held in place with the invokers they held; and no key is built or
\* inserted twice.
C16_SharedCache ==
    [][RunStep =>
        /\ (Probed(last') /\ KeyOf(solution', last') \in DOMAIN invokers) =>
              /\ last'.status = "Ok"
              /\ last'.found = Some(invokers[KeyOf(solution', last')])
              /\ last'.invoked = last'.found
              /\ FallbackCalls(last') = 0 /\ Insertions(last') = 0
              /\ invokers' = invokers /\ built' = built
        /\ Kept(invokers, invokers')
        /\ Insertions(last') <= 1
        /\ Insertions(last') = 1 =>
              (KeyOf(solution', last') \notin DOMAIN invokers
               /\ DOMAIN invokers' = DOMAIN invokers \cup {KeyOf(solution', last')})
        /\ Insertions(last') = 0 => invokers' = invokers
        /\ \A k \in DOMAIN built' : built'[k] = 1
    ]_vars

\* A Run hit an entry that a Run of a Solution with another perf_cfg had inserted.
C16_Witness ==
    /\ last.op = "Run" /\ last.status = "Ok"
    /\ has_value(last.found)
    /\ value(last.found).perf_cfg # value_or(solution.perf_cfg, "")
    /\ FallbackCalls(last) = 0

\* C20: a Run that probes a key the cache does not hold, whatever entries it
\* holds for the same signature with another solver or for the same solver
\* with another signature, misses and runs its own fallback; if it succeeds it
\* invokes the invoker built for its own key and the cache gains exactly that
\* entry; the entries held before stay as they were.  An invoked invoker is
\* always the one of the Run's own key.
C20_KeyIsolation ==
    [][RunStep =>
        /\ (Probed(last') /\ KeyOf(solution', last') \notin DOMAIN invokers) =>
              /\ last'.found = nullopt
              /\ FallbackCalls(last') = 1
              /\ Kept(invokers, invokers')
              /\ last'.status = "Ok" =>
                    /\ last'.invoked = last'.built
                    /\ DOMAIN invokers' = DOMAIN invokers \cup {KeyOf(solution', last')}
                    /\ invokers'[KeyOf(solution', last')] = value(last'.built)
              /\ last'.status # "Ok" => invokers' = invokers
        /\ has_value(last'.invoked) =>
              /\ value(last'.invoked).net_cfg = value(last'.net_cfg)
              /\ value(last'.invoked).solver = SolverToString(solution'.solver)
              /\ invokers'[KeyOf(solution', last')] = value(last'.invoked)
    ]_vars

\* A Run missed and built its own invoker while the cache held an entry of the
\* same signature for another solver; the cache holds both now.
C20_Witness ==
    /\ last.op = "Run" /\ last.status = "Ok" /\ last.found = nullopt
    /\ \E k \in DOMAIN invokers :
          /\ k # KeyOf(solution, last)
          /\ k[1] = KeyOf(solution, last)[1]
          /\ invokers[k] # value(last.invoked)

----------------------------------------------------------------------------
(* Numeric checking.                                                        *)

ChecksAt(f, name) == {i \in 1..Len(f.events) : f.events[i][1] = name}
RolesAt(f, I) == {f.events[i][2] : i \in I}
RoleBuffer(f, role) ==
    IF role = "x" THEN value(f.x).buffer
    ELSE IF role = "w" THEN value(f.w).buffer ELSE value(f.y).buffer

\* C17: a successful convolution Run with numeric checking enabled validated,
\* before the invocation, the two tensors that are inputs of its direction
\* (Forward: x and w; Backward: w and y; BackwardWeights: x and y) and, after
\* the invocation, the output tensor and nothing else (Forward: y; Backward: x;
\* BackwardWeights: w), each with the buffer bound to that role, whether the
\* invoker was found or built; a Run with numeric checking disabled made no
\* validation call, and no Run validated an output without an invocation.
C17_NumericChecks ==
    (last.op = "Run" /\ ~last.fused) =>
        LET ins == ChecksAt(last, "checkNumericsInput")
            outs == ChecksAt(last, "checkNumericsOutput")
        IN  /\ ~last.numerics => (ins = {} /\ outs = {})
            /\ last.status # "Ok" => outs = {}
            /\ \A i \in ins \cup outs : last.events[i][3] = RoleBuffer(last, last.events[i][2])
            /\ (last.numerics /\ last.status = "Ok") =>
                  LET dir == value(last.problem_).direction
                      inv == IndexOf(last, "Invoke")
                  IN  /\ \A i \in ins : i < inv
                      /\ \A i \in outs : i > inv
                      /\ Cardinality(ins) = 2 /\ Cardinality(outs) = 1
                      /\ dir = miopenProblemDirectionForward =>
                            (RolesAt(last, ins) = {"x", "w"} /\ RolesAt(last, outs) = {"y"})
                      /\ dir = miopenProblemDirectionBackward =>
                            (RolesAt(last, ins) = {"w", "y"} /\ RolesAt(last, outs) = {"x"})
                      /\ dir = miopenProblemDirectionBackwardWeights =>
                            (RolesAt(last, ins) = {"x", "y"} /\ RolesAt(last, outs) = {"w"})

\* A Backward convolution Run, numeric checking enabled, that found its invoker
\* in the cache and validated x after invoking it.
C17_Witness ==
    /\ last.op = "Run" /\ ~last.fused /\ last.status = "Ok" /\ last.numerics
    /\ has_value(last.found)
    /\ value(last.problem_).direction = miopenProblemDirectionBackward
    /\ RolesAt(last, ChecksAt(last, "checkNumericsOutput")) = {"x"}

----------------------------------------------------------------------------
(* What a Run leaves alone.                                                 *)

\* C18: no Run, successful or failed, changes the Solution it runs: solver,
\* problem, time, workspace_required and perf_cfg after the call are those
\* before it, so after any sequence of Runs they are those before the first.
C18_RunKeepsSolution ==
    [][RunStep =>
        /\ solution'.solver = solution.solver
        /\ solution'.problem = solution.problem
        /\ solution'.time = solution.time
        /\ solution'.workspace_required = solution.workspace_required
        /\ solution'.perf_cfg = solution.perf_cfg
    ]_vars

\* After two Runs, the second one a successful transpose-mode Run with more
\* workspace than required: it worked on a transposed problem, and the stored
\* one is still in transpose mode with its own direction.
C18_Witness ==
    /\ runs = 2
    /\ last.op = "Run" /\ last.status = "Ok"
    /\ solution.problem.mode = miopenTranspose
    /\ value(last.problem_) # solution.problem
    /\ value(last.problem_).direction # solution.problem.direction
    /\ last.ws > solution.workspace_required

ValidationFailures ==
    {"InsufficientWorkspace", "Unsupported", "MissingArgument", "InvalidShape", "GroupCount"}

\* C19: a Run that fails a validation step (insufficient workspace, standalone
\* Activation or Bias, missing argument, backward shape mismatch, group count,
\* unsupported direction, fused descriptor rebinding) leaves the cache as it
\* was, and has made no probe, no fallback call, no insertion and no invocation.
C19_ValidationFailuresLeaveCache ==
    [][(RunStep /\ last'.status \in ValidationFailures) =>
        /\ invokers' = invokers
        /\ built' = built
        /\ CountEvents(last', "GetInvoker") = 0
        /\ FallbackCalls(last') = 0
        /\ CountEvents(last', "PrepareInvoker") = 0
        /\ Insertions(last') = 0
        /\ Invocations(last') = 0
        /\ NoHandleUse(last')
        /\ last'.net_cfg = nullopt
    ]_vars

\* A Run failed the group-count validation, numeric checking enabled, on a
\* handle whose cache holds an entry.
C19_Witness ==
    /\ last.op = "Run" /\ last.status = "GroupCount" /\ last.numerics
    /\ DOMAIN invokers # {}
    /\ NoHandleUse(last)

----------------------------------------------------------------------------
(* Decoding into an existing Solution.                                      *)

HeaderErrors == {"CorruptData", "VersionMismatch"}

\* C21: a decode that failed with CorruptData or VersionMismatch left the
\* Solution it decoded into as it was before: time, workspace_required, solver,
\* problem and perf_cfg are the ones it had, whatever the record's fields hold.
C21_HeaderErrorsKeepTarget ==
    (last.op = "from_json" /\ last.status \in HeaderErrors) =>
        /\ has_value(record.into)
        /\ solution.time = value(record.into).time
        /\ solution.workspace_required = value(record.into).workspace_required
        /\ solution.solver = value(record.into).solver
        /\ solution.problem = value(record.into).problem
        /\ solution.perf_cfg = value(record.into).perf_cfg

\* A decode into a default Solution failed with VersionMismatch on a record
\* whose body is complete and holds other values in every field.
C21_Witness ==
    /\ last.op = "from_json" /\ last.status = "VersionMismatch"
    /\ record.into = Some(DefaultSolution)
    /\ {"time", "workspace", "solver", "problem", "perf_cfg"} \subseteq DOMAIN record.json
    /\ record.json["time"] # solution.time
    /\ SolverFromString(record.json["solver"]) # solution.solver
    /\ ProblemFromJson(record.json["problem"]) # solution.problem
    /\ Some(record.json["perf_cfg"]) # solution.perf_cfg

====
